---- MODULE Spec2Model ----
(***************************************************************************)
(* majortom: a Kubernetes mutating admission webhook (main.go).            *)
(*                                                                         *)
(* The module models                                                       *)
(*   - the patch operation model (operation, addOp, replaceOp),            *)
(*   - the two mutation strategies (AddOwner, VarPatch with varReplace     *)
(*     and varAdd),                                                        *)
(*   - the admission protocol handler podPatch bound to a strategy,        *)
(*   - a JSON-Patch apply (RFC 6902, as evanphx/json-patch performs it in  *)
(*     the tests) over the pod document,                                   *)
(* and states the properties of the specification over them.               *)
(*                                                                         *)
(* Go slices and JSON arrays are 0-based, TLA+ sequences are 1-based: the  *)
(* element with Go index i is element i + 1 of the sequence.               *)
(***************************************************************************)
EXTENDS Integers, Sequences, FiniteSets, TLC

VARIABLES
    apply,      \* the strategy bound to the handler (bind), fixed at startup
    served,     \* TRUE once the handler has answered the request in r
    r,          \* the request the handler was called with
    w,          \* the response writer after the handler returned
    steps,      \* the steps podPatch ran for r, in order
    called,     \* what the strategy returned to podPatch for r, when it was called
    strategy,   \* the strategy under test (a PodPatchable called directly)
    doc,        \* the original pod document given to the strategy
    pc,         \* how far the direct strategy run has gone
    ops,        \* the operations the strategy returned for doc
    err,        \* the error the strategy returned for doc
    patched,    \* the outcome of applying ops to doc
    ops2,       \* the operations of the second run, on the patched document
    err2,       \* the error of the second run
    patched2,   \* the outcome of applying ops2 to the patched document
    inflight    \* the requests the server is serving at once, one per slot

vars == <<apply, served, r, w, steps, called, strategy, doc, pc, ops, err, patched, ops2, err2,
          patched2, inflight>>

handlerVars == <<apply, served, r, w, steps, called>>

strategyVars == <<strategy, doc, pc, ops, err, patched, ops2, err2, patched2>>

serverVars == <<inflight>>

----------------------------------------------------------------------------
(* Bounds of the model.                                                    *)

\* the longest container sequence of a pod document
MaxContainers == 2

\* the longest env sequence of a container
MaxEnv == 2

\* the longest container sequence of a pod document sent through the handler
MaxReqContainers == 2

\* the most requests the server serves at once
MaxInFlight == 2

----------------------------------------------------------------------------
(* Program constants.                                                      *)

ApplicationJson == "application/json"

MethodPost == "POST"

StatusOK == 200

StatusBadRequest == 400

StatusForbidden == 403

StatusNotFound == 404

StatusMethodNotAllowed == 405

StatusInternalServerError == 500

NamespacePublic == "kube-public"

NamespaceSystem == "kube-system"

podResource == [group |-> "", version |-> "v1", resource |-> "pods"]

\* a nil error
NilErr == "<nil>"

ErrPodHasOwnerLabel == "pod has owner"

----------------------------------------------------------------------------
(* Decimal formatting (fmt.Sprintf %d) and JSON pointers.                  *)

Digit == <<"0", "1", "2", "3", "4", "5", "6", "7", "8", "9">>

RECURSIVE Itoa(_)
Itoa(n) == IF n < 10 THEN Digit[n + 1] ELSE Itoa(n \div 10) \o Digit[(n % 10) + 1]

\* the largest array index a pointer of the model can hold
MaxIndex == IF MaxContainers > MaxEnv THEN MaxContainers + 1 ELSE MaxEnv + 1

\* strconv.Atoi of a pointer token: the index it denotes, -1 when it is no index
Atoi(s) ==
    IF \E n \in 0..MaxIndex : Itoa(n) = s
    THEN CHOOSE n \in 0..MaxIndex : Itoa(n) = s
    ELSE -1

\* a JSON pointer is the concatenation of "/" token for its reference tokens
RECURSIVE JoinPointer(_)
JoinPointer(tokens) ==
    IF tokens = <<>> THEN ""
    ELSE "/" \o Head(tokens) \o JoinPointer(Tail(tokens))

----------------------------------------------------------------------------
(* The patch operation model.                                              *)

\* a string value
StrValue(s) == [kind |-> "string", str |-> s]

\* the field-reference descriptor {name, valueFrom: {fieldRef: {fieldPath}}}
FieldRefValue(name, value) == [kind |-> "fieldRef", name |-> name, fieldPath |-> value]

\* a sequence of field-reference descriptors
FieldRefListValue(items) == [kind |-> "fieldRefList", items |-> items]

operation(op, path, value) == [op |-> op, path |-> path, value |-> value]

addOp(path, value) == operation("add", path, value)

replaceOp(path, value) == operation("replace", path, value)

----------------------------------------------------------------------------
(* The pod document (the JSON of request.object.raw) and the decoded pod.  *)

LabelKeys == {"owner", "app"}

LabelValues(k) == IF k = "owner" THEN {"", "betty.boop"} ELSE {"majortom"}

\* the label mappings: every key subset, every value of each key
LabelMaps ==
    UNION { { m \in [K -> {"", "betty.boop", "majortom"}] :
                \A k \in K : m[k] \in LabelValues(k) } : K \in SUBSET LabelKeys }

\* metadata.labels of a document: the member is absent (omitempty) or an
\* object
DocLabels ==
    { [kind |-> "absent", m |-> <<>>] }
        \cup { [kind |-> "map", m |-> m] : m \in LabelMaps }

\* corev1.EnvVar: a literal value, or a valueFrom.fieldRef.fieldPath ("" = none)
EnvVars ==
    { [name |-> "NODEIP", value |-> "localhost", fieldPath |-> ""],
      [name |-> "NODEIP", value |-> "", fieldPath |-> "status.hostIP"],
      [name |-> "REMOTE", value |-> "junctionbox.ca", fieldPath |-> ""] }

SeqsUpTo(S, n) == UNION { [1..k -> S] : k \in 0..n }

\* the env member of a container document: absent (omitempty), or an array
DocEnvs ==
    { [present |-> FALSE, items |-> <<>>] }
        \cup { [present |-> TRUE, items |-> e] : e \in SeqsUpTo(EnvVars, MaxEnv) }

DocContainers == { [image |-> "nginx:latest", env |-> e] : e \in DocEnvs }

\* a pod document with at most n containers
DocsUpTo(labels, n) ==
    { [labels |-> l, containers |-> c] : l \in labels, c \in SeqsUpTo(DocContainers, n) }

\* json.Unmarshal(raw, &pod) of a pod document: absent labels give a nil
\* map, an absent env gives a nil slice
DecodePod(d) ==
    [labels |-> IF d.labels.kind = "map" THEN d.labels.m ELSE <<>>,
     containers |-> [i \in DOMAIN d.containers |->
                        [image |-> d.containers[i].image,
                         env |-> d.containers[i].env.items]]]

----------------------------------------------------------------------------
(* The mutation strategies.                                                *)

\* AddOwner taking an empty owner label for a missing one
AddOwnerNonEmpty(pod) ==
    IF "owner" \in DOMAIN pod.labels /\ pod.labels["owner"] # ""
    THEN [ops |-> <<>>, err |-> ErrPodHasOwnerLabel]
    ELSE [ops |-> <<addOp("/metadata/labels/owner", StrValue("nathan.fisher"))>>,
          err |-> NilErr]

\* AddOwner without the check for an existing owner label
AddOwnerNoCheck(pod) ==
    [ops |-> <<addOp("/metadata/labels/owner", StrValue("nathan.fisher"))>>,
     err |-> NilErr]

AddOwner(pod) ==
    IF "owner" \in DOMAIN pod.labels
    THEN [ops |-> <<>>, err |-> ErrPodHasOwnerLabel]
    ELSE [ops |-> <<addOp("/metadata/labels/owner", StrValue("nathan.fisher"))>>,
          err |-> NilErr]

\* varReplace emitting an add at the index instead of a replace
varReplaceAsAdd(cid, eid, name, value) ==
    addOp("/spec/containers/" \o Itoa(cid) \o "/env/" \o Itoa(eid),
          FieldRefValue(name, value))

varReplace(cid, eid, name, value) ==
    replaceOp("/spec/containers/" \o Itoa(cid) \o "/env/" \o Itoa(eid),
              FieldRefValue(name, value))

\* varAdd without the case of an empty env: always the index path
varAddAlwaysIndex(cid, eid, name, value) ==
    addOp("/spec/containers/" \o Itoa(cid) \o "/env/" \o Itoa(eid),
          FieldRefValue(name, value))

\* varAdd adding one index past the end of a non-empty env
varAddPastEnd(cid, eid, name, value) ==
    IF eid = 0
    THEN addOp("/spec/containers/" \o Itoa(cid) \o "/env",
               FieldRefListValue(<<FieldRefValue(name, value)>>))
    ELSE addOp("/spec/containers/" \o Itoa(cid) \o "/env/" \o Itoa(eid + 1),
               FieldRefValue(name, value))

varAdd(cid, eid, name, value) ==
    IF eid = 0
    THEN addOp("/spec/containers/" \o Itoa(cid) \o "/env",
               FieldRefListValue(<<FieldRefValue(name, value)>>))
    ELSE addOp("/spec/containers/" \o Itoa(cid) \o "/env/" \o Itoa(eid),
               FieldRefValue(name, value))

\* the inner loop without its break: the index of the last entry named name
RECURSIVE envScanLast(_, _, _)
envScanLast(env, name, j) ==
    IF j >= Len(env) THEN -1
    ELSE LET rest == envScanLast(env, name, j + 1)
         IN  IF rest >= 0 THEN rest
             ELSE IF env[j + 1].name = name THEN j ELSE -1

\* the inner loop of VarPatch from index j on: the index of the first entry
\* of env named name, -1 when the loop ends with wasFound = false
RECURSIVE envScan(_, _, _)
envScan(env, name, j) ==
    IF j >= Len(env) THEN -1
    ELSE IF env[j + 1].name = name THEN j
    ELSE envScan(env, name, j + 1)

\* the loop body without the scan: always an add at the end of the env
containerOpAlwaysAdd(pod, i, name, value) ==
    varAdd(i, Len(pod.containers[i + 1].env), name, value)

\* the body of the outer loop of VarPatch for container i
containerOp(pod, i, name, value) ==
    LET container == pod.containers[i + 1]
        j == envScan(container.env, name, 0)
    IN  IF j >= 0
        THEN varReplace(i, j, name, value)
        ELSE varAdd(i, Len(container.env), name, value)

\* the outer loop of VarPatch from container i on, acc the operations so far
RECURSIVE varPatchLoop(_, _, _, _, _)
varPatchLoop(pod, i, name, value, acc) ==
    IF i >= Len(pod.containers) THEN acc
    ELSE varPatchLoop(pod, i + 1, name, value,
                      Append(acc, containerOp(pod, i, name, value)))

\* VarPatch returning after the first container
VarPatchFirstOnly(name, value, pod) ==
    [ops |-> IF Len(pod.containers) = 0 THEN <<>>
             ELSE <<containerOp(pod, 0, name, value)>>,
     err |-> NilErr]

VarPatch(name, value, pod) ==
    [ops |-> varPatchLoop(pod, 0, name, value, <<>>), err |-> NilErr]

Strategies == {"AddOwner", "VarPatch"}

\* PodPatchable: the call apply(&pod) of a bound strategy
Patchable(s, pod) ==
    IF s = "AddOwner" THEN AddOwner(pod) ELSE VarPatch("NODEIP", "status.hostIP", pod)

----------------------------------------------------------------------------
(* JSON-Patch apply (RFC 6902) over the pod document.                      *)

\* the reference-token sequences of the pointers into a pod document
PointerTokens ==
    { <<"metadata", "labels", k>> : k \in LabelKeys }
        \cup { <<"spec", "containers", Itoa(c), "env">> : c \in 0..MaxIndex }
        \cup { <<"spec", "containers", Itoa(c), "env", Itoa(e)>> :
                 c \in 0..MaxIndex, e \in 0..MaxIndex }

\* the reference tokens of a pointer, <<>> when it is no pointer of the model
ParsePointer(path) ==
    IF \E t \in PointerTokens : JoinPointer(t) = path
    THEN CHOOSE t \in PointerTokens : JoinPointer(t) = path
    ELSE <<>>

\* the env entry a field-reference descriptor decodes to
EnvVarOf(v) == [name |-> v.name, value |-> "", fieldPath |-> v.fieldPath]

InsertAt(s, i, e) == SubSeq(s, 1, i) \o <<e>> \o SubSeq(s, i + 1, Len(s))

PatchFailed(d) == [ok |-> FALSE, doc |-> d]

PatchDone(d) == [ok |-> TRUE, doc |-> d]

\* add or replace of the member /metadata/labels/key: the parent object must
\* exist, and replace needs the member to exist
ApplyLabelOp(d, o, key) ==
    IF d.labels.kind # "map" \/ o.value.kind # "string" THEN PatchFailed(d)
    ELSE IF o.op = "replace" /\ key \notin DOMAIN d.labels.m THEN PatchFailed(d)
    ELSE PatchDone([d EXCEPT !.labels.m =
            [k \in (DOMAIN d.labels.m) \cup {key} |->
                IF k = key THEN o.value.str ELSE d.labels.m[k]]])

\* add or replace of the member /spec/containers/cid/env: the container must
\* exist, and replace needs the member to exist
ApplyEnvOp(d, o, cid) ==
    IF cid < 0 \/ cid >= Len(d.containers) \/ o.value.kind # "fieldRefList"
    THEN PatchFailed(d)
    ELSE IF o.op = "replace" /\ ~d.containers[cid + 1].env.present THEN PatchFailed(d)
    ELSE PatchDone([d EXCEPT !.containers[cid + 1].env =
            [present |-> TRUE,
             items |-> [k \in DOMAIN o.value.items |-> EnvVarOf(o.value.items[k])]]])

\* add or replace of the element /spec/containers/cid/env/eid: the array must
\* exist; add inserts at an index up to its length, replace needs the element
ApplyEnvItemOp(d, o, cid, eid) ==
    IF cid < 0 \/ cid >= Len(d.containers) \/ o.value.kind # "fieldRef"
    THEN PatchFailed(d)
    ELSE LET env == d.containers[cid + 1].env
         IN  IF ~env.present \/ eid < 0 THEN PatchFailed(d)
             ELSE IF o.op = "add"
             THEN IF eid > Len(env.items) THEN PatchFailed(d)
                  ELSE PatchDone([d EXCEPT !.containers[cid + 1].env.items =
                            InsertAt(env.items, eid, EnvVarOf(o.value))])
             ELSE IF eid >= Len(env.items) THEN PatchFailed(d)
                  ELSE PatchDone([d EXCEPT !.containers[cid + 1].env.items[eid + 1] =
                            EnvVarOf(o.value)])

\* one operation applied to a document
ApplyOp(d, o) ==
    LET t == ParsePointer(o.path)
    IN  IF o.op \notin {"add", "replace"} \/ t = <<>> THEN PatchFailed(d)
        ELSE IF Len(t) = 3 THEN ApplyLabelOp(d, o, t[3])
        ELSE IF Len(t) = 4 THEN ApplyEnvOp(d, o, Atoi(t[3]))
        ELSE ApplyEnvItemOp(d, o, Atoi(t[3]), Atoi(t[5]))

\* the operations from the k-th on applied one after another to cur; the
\* first failure fails the patch and leaves the original document orig
RECURSIVE ApplyFrom(_, _, _, _)
ApplyFrom(orig, cur, patch, k) ==
    IF k > Len(patch) THEN PatchDone(cur)
    ELSE LET res == ApplyOp(cur, patch[k])
         IN  IF res.ok THEN ApplyFrom(orig, res.doc, patch, k + 1)
             ELSE PatchFailed(orig)

\* jsonpatch Patch.Apply
ApplyPatch(d, patch) == ApplyFrom(d, d, patch, 1)

----------------------------------------------------------------------------
(* Serialization of the operations and of the admission review.            *)

\* encoding/json has an encoding for a string, a map and a slice of maps
Marshalable(v) == v.kind \in {"string", "fieldRef", "fieldRefList"}

\* json.Marshal(ops): a nil slice encodes as null, a slice as the array of
\* its operations in order; an unsupported value is an error
MarshalOps(o) ==
    IF \E k \in DOMAIN o : ~Marshalable(o[k].value)
    THEN [err |-> "json: unsupported type", json |-> [null |-> TRUE, items |-> <<>>]]
    ELSE [err |-> NilErr,
          json |-> [null |-> o = <<>>,
                    items |-> [k \in DOMAIN o |->
                                 [op |-> o[k].op, path |-> o[k].path, value |-> o[k].value]]]]

\* jsonpatch.DecodePatch: null decodes to the empty patch
DecodePatch(json) ==
    IF json.null THEN <<>>
    ELSE [k \in DOMAIN json.items |->
            operation(json.items[k].op, json.items[k].path, json.items[k].value)]

----------------------------------------------------------------------------
(* The requests.                                                           *)

Methods == {MethodPost, "GET"}

ContentTypes == {ApplicationJson, "text/html"}

Namespaces == {"default", "kube-node-lease", NamespaceSystem, NamespacePublic}

Resources ==
    { podResource,
      [group |-> "", version |-> "v1", resource |-> "deployments"],
      [group |-> "apps", version |-> "v1", resource |-> "pods"],
      [group |-> "", version |-> "v2", resource |-> "pods"] }

UIDs == {"uid-1", "uid-2"}

\* the env members of the pod documents sent through the handler
RequestEnvs ==
    { [present |-> FALSE, items |-> <<>>],
      [present |-> TRUE,
       items |-> <<[name |-> "REMOTE", value |-> "junctionbox.ca", fieldPath |-> ""]>>],
      [present |-> TRUE,
       items |-> <<[name |-> "REMOTE", value |-> "junctionbox.ca", fieldPath |-> ""],
                   [name |-> "NODEIP", value |-> "localhost", fieldPath |-> ""]>>] }

\* the label members of the pod documents sent through the handler
RequestLabels ==
    { [kind |-> "absent", m |-> <<>>],
      [kind |-> "map", m |-> [k \in {"app"} |-> "majortom"]],
      [kind |-> "map", m |-> [k \in {"owner"} |-> "betty.boop"]] }

RequestContainers ==
    SeqsUpTo({ [image |-> "nginx:latest", env |-> e] : e \in RequestEnvs },
             MaxReqContainers)

RequestDocs ==
    { [labels |-> l, containers |-> c] : l \in RequestLabels, c \in RequestContainers }

NoDoc == [labels |-> [kind |-> "absent", m |-> <<>>], containers |-> <<>>]

\* request.object.raw: no bytes, JSON that is no pod, or a pod document
RawObjects ==
    { [kind |-> "empty", doc |-> NoDoc], [kind |-> "notPod", doc |-> NoDoc] }
        \cup { [kind |-> "doc", doc |-> d] : d \in RequestDocs }

NilRequest ==
    [nil |-> TRUE, uid |-> "", namespace |-> "", resource |-> podResource,
     object |-> [kind |-> "empty", doc |-> NoDoc]]

AdmissionRequests ==
    { [nil |-> FALSE, uid |-> u, namespace |-> n, resource |-> g, object |-> o] :
        u \in UIDs, n \in Namespaces, g \in Resources, o \in RawObjects }

\* the request body: no bytes, bytes that are no JSON, or an AdmissionReview
Bodies ==
    { [kind |-> "empty", request |-> NilRequest],
      [kind |-> "garbage", request |-> NilRequest],
      [kind |-> "review", request |-> NilRequest] }
        \cup { [kind |-> "review", request |-> q] : q \in AdmissionRequests }

Requests ==
    { [method |-> m, contentType |-> c, body |-> b] :
        m \in Methods, c \in ContentTypes, b \in Bodies }

\* json.NewDecoder(r.Body).Decode(&review)
DecodeReview(body) ==
    IF body.kind = "empty" THEN [err |-> "EOF", request |-> NilRequest]
    ELSE IF body.kind = "garbage"
    THEN [err |-> "invalid character", request |-> NilRequest]
    ELSE [err |-> NilErr, request |-> body.request]

\* json.Unmarshal that accepts an object without bytes as the empty pod
UnmarshalPodLenient(raw) ==
    IF raw.kind = "notPod"
    THEN [err |-> "cannot unmarshal into Go value of type v1.Pod", pod |-> DecodePod(NoDoc)]
    ELSE [err |-> NilErr, pod |-> DecodePod(raw.doc)]

\* json.Unmarshal(review.Request.Object.Raw, &pod)
UnmarshalPod(raw) ==
    IF raw.kind = "empty"
    THEN [err |-> "unexpected end of JSON input", pod |-> DecodePod(NoDoc)]
    ELSE IF raw.kind = "notPod"
    THEN [err |-> "cannot unmarshal into Go value of type v1.Pod", pod |-> DecodePod(NoDoc)]
    ELSE [err |-> NilErr, pod |-> DecodePod(raw.doc)]

\* isSystem without the kube-system case
isSystemPublicOnly(namespace) ==
    IF namespace = NamespacePublic THEN TRUE ELSE FALSE

isSystem(namespace) ==
    IF namespace = NamespacePublic THEN TRUE
    ELSE IF namespace = NamespaceSystem THEN TRUE
    ELSE FALSE

----------------------------------------------------------------------------
(* The admission protocol handler.                                         *)

NoReview == [present |-> FALSE]

\* the response writer before the handler wrote to it
NoResponse == [code |-> 0, contentType |-> "", text |-> "", json |-> NoReview]

\* http.Error replaced by a denial written as an admission envelope
httpErrorEnvelope(error, code) ==
    [code |-> code, contentType |-> ApplicationJson, text |-> error \o "\n",
     json |-> [present |-> TRUE, kind |-> "AdmissionReview",
               apiVersion |-> "admission.k8s.io/v1",
               response |-> [uid |-> "", allowed |-> FALSE, patchType |-> "JSONPatch",
                             patch |-> [null |-> TRUE, items |-> <<>>]]]]

\* http.Error(w, error, code): a plain-text line with the status code
httpError(error, code) ==
    [code |-> code, contentType |-> "text/plain; charset=utf-8",
     text |-> error \o "\n", json |-> NoReview]

\* the AdmissionReview built without copying the request's UID
AdmissionResponseNoUid(uid, patch) ==
    [present |-> TRUE, kind |-> "AdmissionReview", apiVersion |-> "admission.k8s.io/v1",
     response |-> [uid |-> "", allowed |-> TRUE, patchType |-> "JSONPatch",
                   patch |-> patch]]

\* the AdmissionReview podPatch builds around the serialized operations
AdmissionResponse(uid, patch) ==
    [present |-> TRUE, kind |-> "AdmissionReview", apiVersion |-> "admission.k8s.io/v1",
     response |-> [uid |-> uid, allowed |-> TRUE, patchType |-> "JSONPatch",
                   patch |-> patch]]

\* enc.Encode(&resp) on the response writer: the header set before it and
\* the implicit status 200 of the first Write; an AdmissionReview always
\* encodes and the writer takes the bytes
writeJson(resp) ==
    [err |-> NilErr,
     w |-> [code |-> StatusOK, contentType |-> ApplicationJson, text |-> "", json |-> resp]]

\* the steps of podPatch, in the order of the code
StepNames ==
    <<"method", "contentType", "decode", "request", "namespace", "resource", "pod",
      "apply", "marshal", "encode">>

\* the first n steps
Ran(n) == SubSeq(StepNames, 1, n)

Outcome(resp, ran, out) == [w |-> resp, steps |-> ran, strategyOut |-> out]

NotCalled == [ops |-> <<>>, err |-> NilErr]

\* patchResponse answering a strategy error as a bad request with a fixed text
patchResponseBadRequest(request, pod, s) ==
    LET out == Patchable(s, pod) IN
    IF out.err # NilErr
    THEN Outcome(httpError("unable to patch pod", StatusBadRequest), Ran(8), out)
    ELSE Outcome(writeJson(AdmissionResponse(request.uid, MarshalOps(out.ops).json)).w,
                 Ran(10), out)

\* podPatch from the call of the strategy on: the strategy's error, or the
\* operations serialized and written in the AdmissionReview
patchResponse(request, pod, s) ==
    LET out == Patchable(s, pod) IN
    IF out.err # NilErr
    THEN Outcome(httpError(out.err, StatusForbidden), Ran(8), out)
    ELSE LET patch == MarshalOps(out.ops) IN
    IF patch.err # NilErr
    THEN Outcome(httpError("unable to marshal operation json", StatusInternalServerError),
                 Ran(9), out)
    ELSE LET enc == writeJson(AdmissionResponse(request.uid, patch.json)) IN
    IF enc.err # NilErr
    THEN Outcome(httpError("unable to encode response json", StatusInternalServerError),
                 Ran(10), out)
    ELSE Outcome(enc.w, Ran(10), out)

\* podPatch checking the resource before the namespace
podPatchResourceFirst(req, s) ==
    IF req.method # MethodPost
    THEN Outcome(httpError("only POST permitted", StatusMethodNotAllowed), Ran(1), NotCalled)
    ELSE IF req.contentType # ApplicationJson
    THEN Outcome(httpError("invalid content-type", StatusBadRequest), Ran(2), NotCalled)
    ELSE LET review == DecodeReview(req.body) IN
    IF review.err # NilErr
    THEN Outcome(httpError("error reading response body", StatusBadRequest), Ran(3),
                 NotCalled)
    ELSE IF review.request.nil
    THEN Outcome(httpError("nil admission request", StatusBadRequest), Ran(4), NotCalled)
    ELSE IF review.request.resource # podResource
    THEN Outcome(httpError("resource not a v1.Pod", StatusBadRequest), Ran(5), NotCalled)
    ELSE IF isSystem(review.request.namespace)
    THEN Outcome(httpError("will not modify resource in kube-* namespace", StatusForbidden),
                 Ran(6), NotCalled)
    ELSE LET pod == UnmarshalPod(review.request.object) IN
    IF pod.err # NilErr
    THEN Outcome(httpError("unable to unmarshal kubernetes v1.Pod", StatusBadRequest),
                 Ran(7), NotCalled)
    ELSE patchResponse(review.request, pod.pod, s)

\* podPatch(w, r, apply): the response written, the steps run and what the
\* strategy returned; s is the bound strategy
podPatch(req, s) ==
    IF req.method # MethodPost
    THEN Outcome(httpError("only POST permitted", StatusMethodNotAllowed), Ran(1), NotCalled)
    ELSE IF req.contentType # ApplicationJson
    THEN Outcome(httpError("invalid content-type", StatusBadRequest), Ran(2), NotCalled)
    ELSE LET review == DecodeReview(req.body) IN
    IF review.err # NilErr
    THEN Outcome(httpError("error reading response body", StatusBadRequest), Ran(3),
                 NotCalled)
    ELSE IF review.request.nil
    THEN Outcome(httpError("nil admission request", StatusBadRequest), Ran(4), NotCalled)
    ELSE IF isSystem(review.request.namespace)
    THEN Outcome(httpError("will not modify resource in kube-* namespace", StatusForbidden),
                 Ran(5), NotCalled)
    ELSE IF review.request.resource # podResource
    THEN Outcome(httpError("resource not a v1.Pod", StatusBadRequest), Ran(6), NotCalled)
    ELSE LET pod == UnmarshalPod(review.request.object) IN
    IF pod.err # NilErr
    THEN Outcome(httpError("unable to unmarshal kubernetes v1.Pod", StatusBadRequest),
                 Ran(7), NotCalled)
    ELSE patchResponse(review.request, pod.pod, s)

----------------------------------------------------------------------------
(* The server of Exec: the logger around the mux around the bound handler, *)
(* one goroutine per request.                                              *)

Slots == 1..MaxInFlight

\* the path Exec registers the handler at
HandlerPath == "/labels/owner"

Paths == {HandlerPath, "/"}

IdleRequest == [method |-> "", contentType |-> "", body |-> [kind |-> "empty", request |-> NilRequest]]

IdleDoc == NoDoc

\* a slot that serves no request
IdleSlot ==
    [pc |-> "idle", req |-> IdleRequest, path |-> "", code |-> 0, w |-> NoResponse,
     out |-> NotCalled, calls |-> 0, encodes |-> 0, logged |-> <<>>]

ServerIdle == inflight = [i \in Slots |-> IdleSlot]

\* the pod documents of the requests sent to the server
ServerDocs ==
    { [labels |-> [kind |-> "map", m |-> [k \in {"owner"} |-> "betty.boop"]],
       containers |-> <<>>],
      [labels |-> [kind |-> "map", m |-> [k \in {"app"} |-> "majortom"]],
       containers |->
          <<[image |-> "nginx:latest",
             env |-> [present |-> TRUE,
                      items |-> <<[name |-> "REMOTE", value |-> "junctionbox.ca",
                                   fieldPath |-> ""]>>]]>>] }

\* the requests sent to the server: one or more for each outcome of podPatch
ServerRequests ==
    { [method |-> "GET", contentType |-> ApplicationJson,
       body |-> [kind |-> "empty", request |-> NilRequest]],
      [method |-> MethodPost, contentType |-> "text/html",
       body |-> [kind |-> "empty", request |-> NilRequest]],
      [method |-> MethodPost, contentType |-> ApplicationJson,
       body |-> [kind |-> "empty", request |-> NilRequest]],
      [method |-> MethodPost, contentType |-> ApplicationJson,
       body |-> [kind |-> "review", request |-> NilRequest]] }
        \cup { [method |-> MethodPost, contentType |-> ApplicationJson,
                body |-> [kind |-> "review",
                          request |-> [nil |-> FALSE, uid |-> "uid-1", namespace |-> q[1],
                                       resource |-> q[2],
                                       object |-> [kind |-> "empty", doc |-> NoDoc]]]] :
                 q \in { <<NamespaceSystem, podResource>>,
                         <<"default", [group |-> "", version |-> "v1",
                                       resource |-> "deployments"]>>,
                         <<"default", podResource>> } }
        \cup { [method |-> MethodPost, contentType |-> ApplicationJson,
                body |-> [kind |-> "review",
                          request |-> [nil |-> FALSE, uid |-> u, namespace |-> "default",
                                       resource |-> podResource,
                                       object |-> [kind |-> "doc", doc |-> d]]]] :
                 u \in UIDs, d \in ServerDocs }

\* the requests that arrive, each with its path: every request at the handler's
\* path and one at a path the mux has no handler for
Arrivals ==
    { [req |-> q, path |-> HandlerPath] : q \in ServerRequests }
        \cup { [req |-> [method |-> "GET", contentType |-> "",
                         body |-> [kind |-> "empty", request |-> NilRequest]],
                path |-> "/"] }

\* podPatch up to the decoding of the pod (main.go:145-191), which does not
\* depend on the strategy: the rejection written, or the request passes
validation(req) ==
    LET o == podPatch(req, "VarPatch")
    IN  IF Len(o.steps) <= 7
        THEN [ok |-> FALSE, w |-> o.w]
        ELSE [ok |-> TRUE, w |-> NoResponse]

\* the request a handler goroutine works on: the r of its own call
handlerRequestShared(f, i) == IF f[1].pc # "idle" THEN f[1].req ELSE f[i].req

handlerRequest(f, i) == f[i].req

\* responseCode.WriteHeader: the status code the wrapper remembers
WriteHeaderNoRecord(code, statusCode) == code

WriteHeader(code, statusCode) == statusCode

\* the record logger.ServeHTTP prints
logRecord(code, method, path) ==
    "status=" \o Itoa(code) \o " method=" \o method \o " path=" \o path \o "\n"

----------------------------------------------------------------------------
(* The handler serving requests.                                           *)

HandlerIdle ==
    /\ served = FALSE
    /\ r = IdleRequest
    /\ w = NoResponse
    /\ steps = <<>>
    /\ called = NotCalled

StrategyIdle ==
    /\ pc = "idle"
    /\ doc = IdleDoc
    /\ ops = <<>>
    /\ err = NilErr
    /\ patched = PatchFailed(IdleDoc)
    /\ ops2 = <<>>
    /\ err2 = NilErr
    /\ patched2 = PatchFailed(IdleDoc)

\* Exec binds one strategy to the handler; the tests bind AddOwner
Init ==
    /\ apply \in Strategies
    /\ strategy = apply
    /\ HandlerIdle
    /\ StrategyIdle
    /\ ServerIdle

\* bind(podPatch, apply) called by the server with one request
ServeHTTP(req) ==
    LET out == podPatch(req, apply)
    IN  /\ served = FALSE
        /\ served' = TRUE
        /\ r' = req
        /\ w' = out.w
        /\ steps' = out.steps
        /\ called' = out.strategyOut
        /\ UNCHANGED apply
        /\ UNCHANGED strategyVars
        /\ UNCHANGED serverVars

\* the response is sent and every value of the request is discarded
Finish ==
    /\ served = TRUE
    /\ served' = FALSE
    /\ r' = IdleRequest
    /\ w' = NoResponse
    /\ steps' = <<>>
    /\ called' = NotCalled
    /\ UNCHANGED apply
    /\ UNCHANGED strategyVars
    /\ UNCHANGED serverVars

Next == (\E req \in Requests : ServeHTTP(req)) \/ Finish

Spec == Init /\ [][Next]_vars

----------------------------------------------------------------------------
(* A strategy called directly on a pod, its operations applied to the pod  *)
(* document, and the strategy called again on the patched document.        *)

\* the pod documents the strategies are run on
StrategyInputs ==
    ({"AddOwner"} \X
        { [labels |-> l, containers |-> c] : l \in DocLabels, c \in RequestContainers })
        \cup ({"VarPatch"} \X
                DocsUpTo({[kind |-> "map", m |-> [k \in {"app"} |-> "majortom"]]},
                         MaxContainers))

StrategyInit ==
    /\ \E in \in StrategyInputs :
        /\ strategy = in[1]
        /\ doc = in[2]
    /\ apply = strategy
    /\ pc = "start"
    /\ ops = <<>>
    /\ err = NilErr
    /\ patched = PatchFailed(IdleDoc)
    /\ ops2 = <<>>
    /\ err2 = NilErr
    /\ patched2 = PatchFailed(IdleDoc)
    /\ HandlerIdle
    /\ ServerIdle

\* ops, err := apply(&pod) on the decoded document
RunStrategy ==
    /\ pc = "start"
    /\ LET out == Patchable(strategy, DecodePod(doc))
       IN  /\ ops' = out.ops
           /\ err' = out.err
    /\ pc' = "ran"
    /\ UNCHANGED <<strategy, doc, patched, ops2, err2, patched2>>
    /\ UNCHANGED handlerVars
    /\ UNCHANGED serverVars

\* the returned operations, serialized, decoded as a patch and applied to
\* the original document
ApplyOps ==
    /\ pc = "ran"
    /\ err = NilErr
    /\ patched' = ApplyPatch(doc, DecodePatch(MarshalOps(ops).json))
    /\ pc' = "applied"
    /\ UNCHANGED <<strategy, doc, ops, err, ops2, err2, patched2>>
    /\ UNCHANGED handlerVars
    /\ UNCHANGED serverVars

\* the strategy called again, on the patched document
RunAgain ==
    /\ pc = "applied"
    /\ patched.ok
    /\ LET out == Patchable(strategy, DecodePod(patched.doc))
       IN  /\ ops2' = out.ops
           /\ err2' = out.err
    /\ pc' = "reran"
    /\ UNCHANGED <<strategy, doc, ops, err, patched, patched2>>
    /\ UNCHANGED handlerVars
    /\ UNCHANGED serverVars

\* the operations of the second run, serialized, decoded as a patch and
\* applied to the patched document
ApplyAgain ==
    /\ pc = "reran"
    /\ err2 = NilErr
    /\ patched2' = ApplyPatch(patched.doc, DecodePatch(MarshalOps(ops2).json))
    /\ pc' = "reapplied"
    /\ UNCHANGED <<strategy, doc, ops, err, patched, ops2, err2>>
    /\ UNCHANGED handlerVars
    /\ UNCHANGED serverVars

StrategyNext == RunStrategy \/ ApplyOps \/ RunAgain \/ ApplyAgain

StrategySpec == StrategyInit /\ [][StrategyNext]_vars

----------------------------------------------------------------------------
(* The server serving requests concurrently: each slot is the goroutine of *)
(* one request, and a step is taken by one goroutine.                      *)

ServerInit ==
    /\ apply \in Strategies
    /\ strategy = apply
    /\ HandlerIdle
    /\ StrategyIdle
    /\ ServerIdle

\* logger.ServeHTTP is called with a request: wc := &responseCode{w, 200}
Accept(i, req, path) ==
    /\ inflight[i].pc = "idle"
    /\ inflight' = [inflight EXCEPT ![i] =
            [IdleSlot EXCEPT !.pc = "started", !.req = req, !.path = path,
                             !.code = StatusOK]]
    /\ UNCHANGED <<handlerVars, strategyVars>>

\* the mux answers 404 for a path it has no handler for, and calls podPatch
\* for the handler's path: podPatch up to the decoding of the pod, every
\* rejection written through wc.WriteHeader
Validate(i) ==
    /\ inflight[i].pc = "started"
    /\ LET slot == inflight[i]
           v == validation(handlerRequest(inflight, i))
       IN  inflight' = [inflight EXCEPT ![i] =
                IF slot.path # HandlerPath
                THEN [slot EXCEPT !.pc = "returned",
                                  !.w = httpError("404 page not found", StatusNotFound),
                                  !.code = WriteHeader(slot.code, StatusNotFound)]
                ELSE IF ~v.ok
                THEN [slot EXCEPT !.pc = "returned", !.w = v.w,
                                  !.code = WriteHeader(slot.code, v.w.code)]
                ELSE [slot EXCEPT !.pc = "validated"]]
    /\ UNCHANGED <<handlerVars, strategyVars>>

\* ops, err := apply(&pod), and the 403 of a strategy error
CallStrategy(i) ==
    /\ inflight[i].pc = "validated"
    /\ LET slot == inflight[i]
           request == handlerRequest(inflight, i).body.request
           out == Patchable(apply, UnmarshalPod(request.object).pod)
       IN  inflight' = [inflight EXCEPT ![i] =
                IF out.err # NilErr
                THEN [slot EXCEPT !.pc = "returned", !.out = out,
                                  !.calls = slot.calls + 1,
                                  !.w = httpError(out.err, StatusForbidden),
                                  !.code = WriteHeader(slot.code, StatusForbidden)]
                ELSE [slot EXCEPT !.pc = "applied", !.out = out,
                                  !.calls = slot.calls + 1]]
    /\ UNCHANGED <<handlerVars, strategyVars>>

\* the operations marshalled and the AdmissionReview encoded to the writer;
\* the Write goes to the embedded writer, not through wc.WriteHeader
Respond(i) ==
    /\ inflight[i].pc = "applied"
    /\ LET slot == inflight[i]
           request == handlerRequest(inflight, i).body.request
           patch == MarshalOps(slot.out.ops)
           enc == writeJson(AdmissionResponse(request.uid, patch.json))
       IN  inflight' = [inflight EXCEPT ![i] =
                IF patch.err # NilErr
                THEN [slot EXCEPT !.pc = "returned", !.encodes = slot.encodes + 1,
                                  !.w = httpError("unable to marshal operation json",
                                                  StatusInternalServerError),
                                  !.code = WriteHeader(slot.code, StatusInternalServerError)]
                ELSE IF enc.err # NilErr
                THEN [slot EXCEPT !.pc = "returned", !.encodes = slot.encodes + 1,
                                  !.w = httpError("unable to encode response json",
                                                  StatusInternalServerError),
                                  !.code = WriteHeader(slot.code, StatusInternalServerError)]
                ELSE [slot EXCEPT !.pc = "returned", !.encodes = slot.encodes + 1,
                                  !.w = enc.w]]
    /\ UNCHANGED <<handlerVars, strategyVars>>

\* l.Logger.Printf after the wrapped handler has returned
LogRecord(i) ==
    /\ inflight[i].pc = "returned"
    /\ LET slot == inflight[i]
       IN  inflight' = [inflight EXCEPT ![i] =
                [slot EXCEPT !.pc = "logged",
                             !.logged = Append(slot.logged,
                                logRecord(slot.code, slot.req.method, slot.path))]]
    /\ UNCHANGED <<handlerVars, strategyVars>>

\* logger.ServeHTTP returns: every value of the request is discarded
Release(i) ==
    /\ inflight[i].pc = "logged"
    /\ inflight' = [inflight EXCEPT ![i] = IdleSlot]
    /\ UNCHANGED <<handlerVars, strategyVars>>

ServerNext ==
    \E i \in Slots :
        \/ \E a \in Arrivals : Accept(i, a.req, a.path)
        \/ Validate(i)
        \/ CallStrategy(i)
        \/ Respond(i)
        \/ LogRecord(i)
        \/ Release(i)

ServerSpec == ServerInit /\ [][ServerNext]_vars

----------------------------------------------------------------------------
(* Properties of the admission protocol handler (specification Spec).      *)

ReqMethodOk == r.method = "POST"

ReqTypeOk == r.contentType = "application/json"

ReqBodyOk == r.body.kind = "review"

ReqPresent == ~r.body.request.nil

ReqNamespaceOk == r.body.request.namespace \notin {"kube-system", "kube-public"}

ReqResourceOk == r.body.request.resource = [group |-> "", version |-> "v1", resource |-> "pods"]

ReqPodOk == r.body.request.object.kind = "doc"

\* the bound strategy accepts the pod of the request
ReqStrategyOk ==
    \/ apply = "VarPatch"
    \/ ~(/\ r.body.request.object.doc.labels.kind = "map"
         /\ "owner" \in DOMAIN r.body.request.object.doc.labels.m)

\* the request has an envelope with a request in it
ReqEnvelope == ReqMethodOk /\ ReqTypeOk /\ ReqBodyOk /\ ReqPresent

\* the request passes the seven validation checks
ReqValid == ReqEnvelope /\ ReqNamespaceOk /\ ReqResourceOk /\ ReqPodOk

\* a rejection: the status, and the reason as one plain-text line
Rejection(code, reason) ==
    [code |-> code, contentType |-> "text/plain; charset=utf-8",
     text |-> reason \o "\n", json |-> [present |-> FALSE]]

\* C1: the response to a request is the one of the earliest constraint it
\* violates, in the order method, content type, envelope, request,
\* namespace, resource, pod, strategy, whatever the later constraints are
C1_FirstViolationDecides ==
    served =>
        /\ ~ReqMethodOk => w.code = 405 /\ ~w.json.present
        /\ ReqMethodOk /\ ~ReqTypeOk => w = Rejection(400, "invalid content-type")
        /\ ReqMethodOk /\ ReqTypeOk /\ ~ReqBodyOk =>
                w = Rejection(400, "error reading response body")
        /\ ReqMethodOk /\ ReqTypeOk /\ ReqBodyOk /\ ~ReqPresent =>
                w = Rejection(400, "nil admission request")
        /\ ReqEnvelope /\ ~ReqNamespaceOk => w.code = 403 /\ ~w.json.present
        /\ ReqEnvelope /\ ReqNamespaceOk /\ ~ReqResourceOk =>
                w = Rejection(400, "resource not a v1.Pod")
        /\ ReqEnvelope /\ ReqNamespaceOk /\ ReqResourceOk /\ ~ReqPodOk =>
                w = Rejection(400, "unable to unmarshal kubernetes v1.Pod")
        /\ ReqValid /\ ~ReqStrategyOk => w.code = 403 /\ ~w.json.present

\* a request in a protected namespace, for a resource that is no pod and
\* with no pod in it, was answered 403
C1_Witness ==
    /\ served
    /\ ReqEnvelope /\ ~ReqNamespaceOk /\ ~ReqResourceOk /\ ~ReqPodOk
    /\ w.code = 403

\* C2: a request with an envelope and a request in it is answered 403 'will
\* not modify resource in kube-* namespace' exactly when its namespace is
\* kube-system or kube-public, whatever its resource and object are
C2_ProtectedNamespaceIff403 ==
    served /\ ReqEnvelope =>
        (w = Rejection(403, "will not modify resource in kube-* namespace")
            <=> r.body.request.namespace \in {"kube-system", "kube-public"})

\* a request in kube-system for deployments was answered 403
C2_Witness ==
    /\ served
    /\ ReqEnvelope
    /\ r.body.request.namespace = "kube-system"
    /\ r.body.request.resource.resource = "deployments"
    /\ w = Rejection(403, "will not modify resource in kube-* namespace")

C4_EnvelopeIff200 ==
    served =>
        /\ w.code \in {200, 400, 403, 405, 500}
        /\ w.json.present <=> w.code = 200
        /\ w.json.present => w.json.response.allowed = TRUE /\ w.text = ""
        /\ w.code >= 400 =>
            /\ w.json = [present |-> FALSE]
            /\ w.contentType = "text/plain; charset=utf-8"
            /\ w.text # ""

\* a request was rejected with a plain-text reason and no envelope
C4_Witness ==
    /\ served
    /\ w.code = 403
    /\ ~w.json.present
    /\ w.text = "pod has owner\n"

\* C5: a valid request whose strategy returns an error is answered 403 with
\* the error's message and no patch; AddOwner on a pod with the owner label
\* gives 'pod has owner'
C5_StrategyError403 ==
    /\ served /\ ReqValid /\ called.err # "<nil>" => w = Rejection(403, called.err)
    /\ served /\ ReqValid /\ ~ReqStrategyOk => w = Rejection(403, "pod has owner")

\* a valid request with a pod labelled owner was answered 403 'pod has owner'
C5_Witness ==
    /\ served /\ ReqValid
    /\ apply = "AddOwner"
    /\ r.body.request.object.doc.labels.m = [k \in {"owner"} |-> "betty.boop"]
    /\ called.err = "pod has owner"
    /\ w = Rejection(403, "pod has owner")

----------------------------------------------------------------------------
(* Properties of the strategies (specification StrategySpec).              *)

\* the pod document has a label mapping with the key owner
HasOwnerLabel(d) == d.labels.kind = "map" /\ "owner" \in DOMAIN d.labels.m

\* C6: AddOwner returns exactly one operation, an add at
\* /metadata/labels/owner with the configured value, and no error for a pod
\* without the label owner, and ErrPodHasOwnerLabel and no operation for a
\* pod with it, whatever its value
C6_AddOwnerResult ==
    strategy = "AddOwner" /\ pc # "start" =>
        IF HasOwnerLabel(doc)
        THEN err = "pod has owner" /\ Len(ops) = 0
        ELSE /\ err = "<nil>"
             /\ ops = << [op |-> "add", path |-> "/metadata/labels/owner",
                          value |-> [kind |-> "string", str |-> "nathan.fisher"]] >>

\* AddOwner ran on a pod whose owner label is the empty string
C6_Witness ==
    /\ strategy = "AddOwner"
    /\ pc = "ran"
    /\ HasOwnerLabel(doc)
    /\ doc.labels.m["owner"] = ""
    /\ err = "pod has owner"

\* C7: AddOwner run again on the pod obtained by applying its operation
\* fails with ErrPodHasOwnerLabel and returns no operation
C7_AddOwnerIdempotent ==
    strategy = "AddOwner" /\ pc = "reran" =>
        /\ err = "<nil>"
        /\ patched.ok
        /\ err2 = "pod has owner"
        /\ Len(ops2) = 0

\* AddOwner ran again on a pod whose labels the operation was applied to
C7_Witness ==
    /\ strategy = "AddOwner"
    /\ pc = "reran"
    /\ ~HasOwnerLabel(doc)
    /\ HasOwnerLabel(patched.doc)
    /\ patched.doc.labels.m["owner"] = "nathan.fisher"
    /\ err2 = "pod has owner"

\* C8: the operation AddOwner emits applies to the original pod document,
\* also to one without a metadata.labels member, and changes nothing but
\* the label owner
C8_AddOwnerPatchApplies ==
    strategy = "AddOwner" /\ pc = "applied" =>
        /\ patched.ok
        /\ patched.doc.containers = doc.containers
        /\ patched.doc.labels.kind = "map"
        /\ \A k \in (DOMAIN patched.doc.labels.m) \ {"owner"} :
            /\ doc.labels.kind = "map"
            /\ k \in DOMAIN doc.labels.m
            /\ patched.doc.labels.m[k] = doc.labels.m[k]

\* the first container index in decimal, as element 1
Decimal == <<"0", "1", "2", "3", "4", "5", "6", "7", "8", "9">>

\* the pointers into the env of the container at position k of a pod
EnvPointers(k) ==
    { "/spec/containers/" \o Decimal[k] \o "/env" }
        \cup { "/spec/containers/" \o Decimal[k] \o "/env/" \o Decimal[e] :
                 e \in 1..Len(Decimal) }

\* C9: VarPatch returns no error and exactly one operation per container,
\* the k-th on the env of container k, and no operation only for a pod
\* without containers
C9_VarPatchOnePerContainer ==
    strategy = "VarPatch" /\ pc # "start" =>
        /\ err = "<nil>"
        /\ Len(ops) = Len(doc.containers)
        /\ \A k \in 1..Len(ops) : ops[k].path \in EnvPointers(k)
        /\ (Len(ops) = 0) <=> (Len(doc.containers) = 0)

\* VarPatch ran on a pod of two containers, one with the variable and one
\* without
C9_Witness ==
    /\ strategy = "VarPatch"
    /\ pc = "ran"
    /\ Len(doc.containers) = 2
    /\ Len(ops) = 2
    /\ ops[1].op = "add"
    /\ ops[2].op = "replace"
    /\ ops[2].path = "/spec/containers/1/env/0"

\* the positions of the entries named name in an env sequence
Named(env, name) == { e \in 1..Len(env) : env[e].name = name }

\* the least element of a non-empty set of numbers
Least(S) == CHOOSE e \in S : \A f \in S : e <= f

\* C10: for a container whose env has an entry named name, the operation
\* is a replace at /spec/containers/{i}/env/{j}, j the index of the first
\* such entry, with the field reference {name, fieldPath = field} as value
C10_VarPatchReplacesFirst ==
    strategy = "VarPatch" /\ pc # "start" =>
        \A k \in 1..Len(doc.containers) :
            LET env == doc.containers[k].env.items
            IN  Named(env, "NODEIP") # {} =>
                    /\ k <= Len(ops)
                    /\ ops[k] =
                        [op |-> "replace",
                         path |-> "/spec/containers/" \o Decimal[k] \o "/env/"
                                    \o Decimal[Least(Named(env, "NODEIP"))],
                         value |-> [kind |-> "fieldRef", name |-> "NODEIP",
                                    fieldPath |-> "status.hostIP"]]

\* VarPatch ran on a pod whose second container has the variable twice:
\* the first of the two entries is replaced
C10_Witness ==
    /\ strategy = "VarPatch"
    /\ pc = "ran"
    /\ Len(doc.containers) = 2
    /\ Named(doc.containers[2].env.items, "NODEIP") = {1, 2}
    /\ ops[2].op = "replace"
    /\ ops[2].path = "/spec/containers/1/env/0"

EnvItemPointers(k, S) ==
    { "/spec/containers/" \o Decimal[k] \o "/env/" \o Decimal[e] : e \in S }

\* C12: the operations VarPatch returns apply, one after another, to the
\* original pod document: a replace targets an existing env element and an
\* add targets the env member of an existing container or an index up to
\* the end of its env
C12_VarPatchApplies ==
    strategy = "VarPatch" /\ pc = "applied" =>
        /\ patched.ok
        /\ \A k \in 1..Len(ops) :
            LET env == doc.containers[k].env.items
            IN  /\ k <= Len(doc.containers)
                /\ ops[k].op = "replace" =>
                        ops[k].path \in EnvItemPointers(k, 1..Len(env))
                /\ ops[k].op = "add" =>
                        \/ ops[k].path = "/spec/containers/" \o Decimal[k] \o "/env"
                        \/ /\ doc.containers[k].env.present
                           /\ ops[k].path \in EnvItemPointers(k, 1..(Len(env) + 1))

\* a replace and an add at an index were applied to a pod of two containers
C12_Witness ==
    /\ strategy = "VarPatch"
    /\ pc = "applied"
    /\ patched.ok
    /\ Len(ops) = 2
    /\ ops[1].op = "replace"
    /\ ops[2].op = "add"
    /\ ops[2].path = "/spec/containers/1/env/2"
    /\ Len(patched.doc.containers[2].env.items) = 3

\* the env entry of the variable: no literal value, the field reference
NodeIPEntry == [name |-> "NODEIP", value |-> "", fieldPath |-> "status.hostIP"]

\* C13: after the operations of VarPatch are applied every container has
\* the entry named name with an empty literal value and the field
\* reference; a container that lacked the variable has one more entry, the
\* last one, a container that had it keeps its env length, and every other
\* env entry, every other container field and the rest of the pod are
\* unchanged
C13_VarPatchFrame ==
    strategy = "VarPatch" /\ pc = "applied" =>
        /\ patched.ok
        /\ patched.doc.labels = doc.labels
        /\ Len(patched.doc.containers) = Len(doc.containers)
        /\ \A k \in 1..Len(doc.containers) :
            LET old == doc.containers[k].env.items
                new == patched.doc.containers[k].env.items
            IN  /\ patched.doc.containers[k].image = doc.containers[k].image
                /\ \E e \in 1..Len(new) : new[e] = NodeIPEntry
                /\ IF Named(old, "NODEIP") = {}
                   THEN /\ Len(new) = Len(old) + 1
                        /\ new[Len(new)] = NodeIPEntry
                        /\ \A e \in 1..Len(old) : new[e] = old[e]
                   ELSE /\ Len(new) = Len(old)
                        /\ new[Least(Named(old, "NODEIP"))] = NodeIPEntry
                        /\ \A e \in (1..Len(old)) \ {Least(Named(old, "NODEIP"))} :
                                new[e] = old[e]

\* the operations were applied to a pod whose first container held the
\* variable as a literal after another entry and whose second lacked it
C13_Witness ==
    /\ strategy = "VarPatch"
    /\ pc = "applied"
    /\ patched.ok
    /\ Len(doc.containers) = 2
    /\ Len(doc.containers[1].env.items) = 2
    /\ doc.containers[1].env.items[1].name = "REMOTE"
    /\ doc.containers[1].env.items[2].value = "localhost"
    /\ patched.doc.containers[1].env.items[2] = NodeIPEntry
    /\ Named(doc.containers[2].env.items, "NODEIP") = {}
    /\ Len(patched.doc.containers[2].env.items) = Len(doc.containers[2].env.items) + 1

\* C17: VarPatch run again on the pod obtained by applying its operations
\* returns one replace per container and no add, and applying those leaves
\* the document as it is
C17_VarPatchFixedPoint ==
    /\ strategy = "VarPatch" /\ pc \in {"reran", "reapplied"} =>
        /\ err2 = "<nil>"
        /\ Len(ops2) = Len(doc.containers)
        /\ \A k \in 1..Len(ops2) :
            /\ ops2[k].op = "replace"
            /\ ops2[k].path \in
                EnvItemPointers(k, 1..Len(patched.doc.containers[k].env.items))
    /\ strategy = "VarPatch" /\ pc = "reapplied" =>
        /\ patched2.ok
        /\ patched2.doc = patched.doc

\* the second run's operations were applied to a pod of two containers,
\* one of which lacked the variable at first and one of which held it as a
\* literal
C17_Witness ==
    /\ strategy = "VarPatch"
    /\ pc = "reapplied"
    /\ Len(doc.containers) = 2
    /\ ops[1].op = "add"
    /\ ops[2].op = "replace"
    /\ doc.containers[2].env.items[1].value = "localhost"
    /\ ops2[1].op = "replace"
    /\ ops2[2].op = "replace"
    /\ patched2.ok
    /\ patched2.doc = patched.doc
    /\ patched.doc # doc

----------------------------------------------------------------------------
(* Properties of the server (specification ServerSpec).                    *)

\* the decimal form of the status codes the server answers with
StatusText(code) ==
    CASE code = 200 -> "200"
      [] code = 400 -> "400"
      [] code = 403 -> "403"
      [] code = 404 -> "404"
      [] code = 405 -> "405"
      [] code = 500 -> "500"
      [] OTHER -> "?"

\* the status a client receives: the code the handler set, or 200 when the
\* handler wrote a body without setting a code, or never wrote
SentStatus(slot) == IF slot.w.code = 0 THEN 200 ELSE slot.w.code

SlotFinished(slot) == slot.pc \in {"returned", "logged"}

\* C14: for every request the logging wrapper emits exactly one record, after
\* the wrapped handler has returned, and the record holds the status code the
\* handler set (200 when it set none), the request's method and its path.
C14_OneLogRecord ==
    \A i \in Slots :
        LET slot == inflight[i]
        IN  /\ slot.pc # "logged" => slot.logged = <<>>
            /\ slot.pc = "logged" =>
                  slot.logged =
                        << "status=" \o StatusText(SentStatus(slot))
                           \o " method=" \o slot.req.method
                           \o " path=" \o slot.path \o "\n" >>

C14_Witness ==
    \E i, j \in Slots :
        /\ inflight[i].pc = "logged"
        /\ inflight[i].logged = <<"status=404 method=GET path=/\n">>
        /\ inflight[j].pc = "logged"
        /\ inflight[j].w.code = StatusForbidden
        /\ inflight[j].path = HandlerPath

\* the seven validation checks, in the order of the handler, on a request q
PassesValidation(q) ==
    /\ q.method = "POST"
    /\ q.contentType = "application/json"
    /\ q.body.kind = "review"
    /\ ~q.body.request.nil
    /\ q.body.request.namespace \notin {"kube-system", "kube-public"}
    /\ q.body.request.resource = [group |-> "", version |-> "v1", resource |-> "pods"]
    /\ q.body.request.object.kind = "doc"

\* C16: within one request the strategy is invoked at most once, and only
\* after all seven validation checks have passed; when a check rejects the
\* request the strategy is never invoked and no response is serialised.
C16_StrategyAfterValidation ==
    \A i \in Slots :
        LET slot == inflight[i]
        IN  /\ slot.calls <= 1
            /\ slot.calls = 1 =>
                  /\ slot.path = HandlerPath
                  /\ PassesValidation(slot.req)
                  /\ slot.pc \in {"applied", "returned", "logged"}
            /\ slot.encodes >= 1 => slot.calls = 1 /\ slot.out.err = NilErr
            /\ (slot.pc # "idle" /\ ~PassesValidation(slot.req)) =>
                  /\ slot.calls = 0
                  /\ slot.encodes = 0
                  /\ slot.w.json = NoReview
            /\ (SlotFinished(slot) /\ slot.path = HandlerPath
                    /\ PassesValidation(slot.req)) => slot.calls = 1

C16_Witness ==
    \E i, j \in Slots :
        /\ inflight[i].pc = "returned"
        /\ inflight[i].calls = 1
        /\ inflight[i].encodes = 1
        /\ inflight[j].pc = "returned"
        /\ inflight[j].path = HandlerPath
        /\ inflight[j].req.body.kind = "review"
        /\ ~inflight[j].req.body.request.nil
        /\ inflight[j].req.body.request.object.kind = "empty"
        /\ inflight[j].req.body.request.namespace = "default"
        /\ inflight[j].req.body.request.resource = podResource
        /\ inflight[j].w.code = StatusBadRequest
        /\ inflight[j].calls = 0

\* the response a request gets when it is the only one served: the mux's 404
\* off the handler's path, the handler's response on it
ServedAlone(q, path) ==
    IF path = HandlerPath
    THEN podPatch(q, apply).w
    ELSE Rejection(404, "404 page not found")

\* a step changes the state of one request at most
OneRequestSteps ==
    \A i, j \in Slots :
        (i # j /\ inflight'[i] # inflight[i]) => inflight'[j] = inflight[j]

\* C15: whatever the interleaving of the requests in flight, the response of
\* each request (status, body, patch) is the one it gets when served alone;
\* a step touches the state of one request only, and the configured strategy
\* never changes after startup.
C15_RequestsIsolated ==
    /\ [](\A i \in Slots :
            SlotFinished(inflight[i]) =>
                inflight[i].w = ServedAlone(inflight[i].req, inflight[i].path))
    /\ [][apply' = apply /\ OneRequestSteps]_vars

C15_Witness ==
    \E i, j \in Slots :
        /\ i # j
        /\ inflight[i].pc = "returned"
        /\ inflight[i].w.code = StatusOK
        /\ inflight[i].w.json # NoReview
        /\ inflight[j].pc = "applied"
        /\ inflight[j].req # inflight[i].req
        /\ inflight[j].req.body.request.uid # inflight[i].req.body.request.uid

====
